---- MODULE Spec2Model ----
(***************************************************************************)
(* Model of the gewe-cc hook decision engine: the persisted remote-mode    *)
(* state under ~/.gewe-cc (config.toml, remote.lock, session_disabled.json,*)
(* sessions.json), the ConfigManager operations on it, the three hook      *)
(* handlers and the command-line entry points that mutate the same files.  *)
(*                                                                         *)
(* Strings whose characters matter (session ids, which the code trims) are *)
(* sequences of character codes; strings that are only compared or copied  *)
(* are TLA+ strings; a path is the sequence of its components.             *)
(***************************************************************************)
EXTENDS Integers, Sequences, FiniteSets, TLC

VARIABLES
    cfg,       \* config.toml: [st, config]
    lock,      \* remote.lock exists
    sess,      \* session_disabled.json: [st, ids]
    reg,       \* sessions.json: [st, map]
    last,      \* the most recent invocation: its input, the store it found, its outcome
    procs      \* processes that are part-way through an operation (interleaving runs)

vars == <<cfg, lock, sess, reg, last, procs>>

----------------------------------------------------------------------------
(* Bounds *)

\* number of distinct well-formed session ids the host uses
MaxSessions == 2

----------------------------------------------------------------------------
(* Values *)

\* char::is_whitespace on the characters the model uses (tab .. CR, space)
IsWhitespace(c) == c \in {9, 10, 11, 12, 13, 32}

RECURSIVE TrimStart(_)
TrimStart(s) ==
    IF s = <<>> THEN s
    ELSE IF IsWhitespace(Head(s)) THEN TrimStart(Tail(s)) ELSE s

RECURSIVE TrimEnd(_)
TrimEnd(s) ==
    IF s = <<>> THEN s
    ELSE IF IsWhitespace(s[Len(s)]) THEN TrimEnd(SubSeq(s, 1, Len(s) - 1)) ELSE s

\* str::trim
Trim(s) == TrimEnd(TrimStart(s))

\* session_id.trim().is_empty()
TrimIsEmpty(s) == Len(Trim(s)) = 0

\* "", " " and "s1", "s2", ...
EmptyId == <<>>
BlankId == <<32>>
NamedIds == {<<115, 48 + i>> : i \in 1..MaxSessions}

\* the session whose Stop events carry a transcript_path ("s1")
RegisteredId == <<115, 49>>

\* HookInput.session_id: absent in the JSON defaults to the empty string
SessionIds == {EmptyId, BlankId} \cup NamedIds

NoneStr == [some |-> FALSE, val |-> ""]
SomeStr(v) == [some |-> TRUE, val |-> v]
NonePath == [some |-> FALSE, val |-> <<>>]
SomePath(p) == [some |-> TRUE, val |-> p]

\* HookInput.prompt
Prompts == {NoneStr, SomeStr(">remote-on"), SomeStr(">remote-off"),
            SomeStr(">remote-status"), SomeStr("fix the tests"),
            SomeStr(">remote-on ")}

\* HookInput.cwd
Cwds == {NonePath, SomePath(<<"work", "proj">>)}

\* HookInput.transcript_path
TranscriptPaths == {NonePath, SomePath(<<"t", "a.jsonl">>)}

\* HookInput.user_prompt
UserPrompts == {NoneStr, SomeStr("reply on wechat")}

\* HookInput, as serde decodes it (every field defaulted)
HookInput == [session_id : SessionIds, prompt : Prompts, cwd : Cwds,
              transcript_path : TranscriptPaths, stop_hook_active : BOOLEAN,
              user_prompt : UserPrompts]

\* the single file operation that fails during an invocation, if any
Faults == {"none", "cfg_write", "lock_write", "lock_remove", "sess_write", "reg_write"}

\* outcome of the gewe-cli subprocess
MessengerOutcomes == {"spawn_fail", "nonzero", "success"}

----------------------------------------------------------------------------
(* config.rs: Config and its file *)

\* Config::default (the fields the hook engine reads)
DefaultConfig == [enabled |-> FALSE, wxid |-> "", listen |-> ""]

\* a config written by `gewe-cc init`
InitConfig == [enabled |-> FALSE, wxid |-> "wxid_a", listen |-> "0.0.0.0:4399"]

CfgAbsent == [st |-> "absent", config |-> DefaultConfig]
CfgBad == [st |-> "bad", config |-> DefaultConfig]
CfgOk(c) == [st |-> "ok", config |-> c]

\* the files of ~/.gewe-cc as one value
Store == [cfg |-> cfg, lock |-> lock, sess |-> sess, reg |-> reg]

Ok(S) == [ok |-> TRUE, store |-> S]
Err(S) == [ok |-> FALSE, store |-> S]

\* ConfigManager::load
load(S) ==
    IF S.cfg.st = "ok" THEN [ok |-> TRUE, config |-> S.cfg.config]
    ELSE [ok |-> FALSE, config |-> DefaultConfig]

\* ConfigManager::save
save(S, config, fault) ==
    IF fault = "cfg_write" THEN Err(S)
    ELSE Ok([S EXCEPT !.cfg = CfgOk(config)])

is_remote_enabled_lock_only(S) == S.lock

is_remote_enabled_config_first(S) ==
    IF load(S).ok THEN load(S).config.enabled ELSE S.lock

\* ConfigManager::is_remote_enabled
is_remote_enabled(S) ==
    IF S.lock THEN TRUE
    ELSE IF load(S).ok THEN load(S).config.enabled
    ELSE FALSE

enable_remote_no_lock(S, fault) ==
    LET saved == save(S, [load(S).config EXCEPT !.enabled = TRUE], fault)
    IN  IF ~saved.ok THEN Err(S) ELSE Ok(saved.store)

\* ConfigManager::enable_remote
enable_remote(S, fault) ==
    LET config == [load(S).config EXCEPT !.enabled = TRUE]
        saved == save(S, config, fault)
    IN  IF ~saved.ok THEN Err(S)
        ELSE IF fault = "lock_write" THEN Err(saved.store)
        ELSE Ok([saved.store EXCEPT !.lock = TRUE])

\* the config flag cleared, the lock left in place
disable_remote_keep_lock(S, fault) ==
    IF load(S).ok
    THEN save(S, [load(S).config EXCEPT !.enabled = FALSE], fault)
    ELSE Ok(S)

\* the lock removed, the config record left as it is
disable_remote_lock_only(S, fault) ==
    IF S.lock
    THEN IF fault = "lock_remove" THEN Err(S) ELSE Ok([S EXCEPT !.lock = FALSE])
    ELSE Ok(S)

\* ConfigManager::disable_remote
disable_remote(S, fault) ==
    LET saved == IF load(S).ok
                 THEN save(S, [load(S).config EXCEPT !.enabled = FALSE], fault)
                 ELSE Ok(S)
    IN  IF ~saved.ok THEN Err(S)
        ELSE IF saved.store.lock
             THEN IF fault = "lock_remove" THEN Err(saved.store)
                  ELSE Ok([saved.store EXCEPT !.lock = FALSE])
             ELSE Ok(saved.store)

----------------------------------------------------------------------------
(* config.rs: the disabled-session set and its file *)

SessAbsent == [st |-> "absent", ids |-> {}]
SessGarbage == [st |-> "garbage", ids |-> {}]
SessUnreadable == [st |-> "unreadable", ids |-> {}]
SessOk(ids) == [st |-> "ok", ids |-> ids]

\* ConfigManager::load_disabled_sessions
load_disabled_sessions(S) ==
    IF S.sess.st = "absent" THEN [ok |-> TRUE, sessions |-> {}]
    ELSE IF S.sess.st = "unreadable" THEN [ok |-> FALSE, sessions |-> {}]
    ELSE IF S.sess.st = "garbage" THEN [ok |-> TRUE, sessions |-> {}]
    ELSE [ok |-> TRUE, sessions |-> S.sess.ids]

\* ConfigManager::save_disabled_sessions
save_disabled_sessions(S, sessions, fault) ==
    IF fault = "sess_write" THEN Err(S)
    ELSE Ok([S EXCEPT !.sess = SessOk(sessions)])

disable_session_no_insert(S, session_id, fault) ==
    IF TrimIsEmpty(session_id) THEN Ok(S)
    ELSE IF ~load_disabled_sessions(S).ok THEN Err(S)
    ELSE save_disabled_sessions(S, load_disabled_sessions(S).sessions, fault)

disable_session_overwrite(S, session_id, fault) ==
    IF TrimIsEmpty(session_id) THEN Ok(S)
    ELSE IF ~load_disabled_sessions(S).ok THEN Err(S)
    ELSE save_disabled_sessions(S, {session_id}, fault)

\* ConfigManager::disable_session
disable_session(S, session_id, fault) ==
    IF TrimIsEmpty(session_id) THEN Ok(S)
    ELSE LET loaded == load_disabled_sessions(S)
         IN  IF ~loaded.ok THEN Err(S)
             ELSE save_disabled_sessions(S, loaded.sessions \cup {session_id}, fault)

is_session_disabled_never(S, session_id) == FALSE

\* ConfigManager::is_session_disabled
is_session_disabled(S, session_id) ==
    IF TrimIsEmpty(session_id) THEN FALSE
    ELSE LET loaded == load_disabled_sessions(S)
         IN  IF loaded.ok THEN session_id \in loaded.sessions ELSE FALSE

----------------------------------------------------------------------------
(* server.rs: SessionRegistry *)

EmptyMap == [x \in {} |-> <<>>]

RegAbsent == [st |-> "absent", map |-> EmptyMap]
RegGarbage == [st |-> "garbage", map |-> EmptyMap]
RegUnreadable == [st |-> "unreadable", map |-> EmptyMap]
RegOk(m) == [st |-> "ok", map |-> m]

\* HashMap::insert
MapInsert(m, k, v) == [x \in DOMAIN m \cup {k} |-> IF x = k THEN v ELSE m[x]]

\* SessionRegistry::new: the in-memory map read from sessions.json
SessionRegistry_new(S) ==
    IF S.reg.st = "absent" THEN [ok |-> TRUE, sessions |-> EmptyMap]
    ELSE IF S.reg.st = "unreadable" THEN [ok |-> FALSE, sessions |-> EmptyMap]
    ELSE IF S.reg.st = "garbage" THEN [ok |-> TRUE, sessions |-> EmptyMap]
    ELSE [ok |-> TRUE, sessions |-> S.reg.map]

\* SessionRegistry::save_sessions
save_sessions(S, sessions, fault) ==
    IF fault = "reg_write" THEN Err(S)
    ELSE Ok([S EXCEPT !.reg = RegOk(sessions)])

\* SessionRegistry::register, on a registry just built by SessionRegistry::new
register(S, sessions, session_id, transcript_path, fault) ==
    save_sessions(S, MapInsert(sessions, session_id, transcript_path), fault)

----------------------------------------------------------------------------
(* hook.rs: decisions *)

NoReason ==
    [class |-> "", wxid |-> "", listen |-> "", project |-> "", warn |-> FALSE,
     text |-> ""]

\* what one handler run produces: the store it leaves, Ok(HookDecision) or Err,
\* the Messenger invocations it made, and the enabled bit it displayed
Outcome(S, decision, reason, error, calls, read) ==
    [store |-> S, decision |-> decision, reason |-> reason, error |-> error,
     calls |-> calls, logged |-> FALSE, read |-> read]

Approve(S) == Outcome(S, "approve", NoReason, "", 0, "")
Block(S, reason) == Outcome(S, "block", reason, "", 0, "")
Fatal(S, error) == Outcome(S, "err", NoReason, error, 0, "")

\* Path::file_name, then to_str
file_name(p) ==
    IF Len(p) = 0 \/ p[Len(p)] = ".." THEN NoneStr ELSE SomeStr(p[Len(p)])

\* the `project` of handle_stop and handle_notification
project(cwd) ==
    IF cwd.some /\ file_name(cwd.val).some THEN file_name(cwd.val).val ELSE "unknown"

\* a session id (character codes) as the text format! interpolates
RECURSIVE id_text(_)
id_text(id) ==
    IF id = <<>> THEN ""
    ELSE (IF Head(id) = 32 THEN " "
          ELSE IF Head(id) = 115 THEN "s"
          ELSE <<"0", "1", "2", "3", "4", "5", "6", "7", "8", "9">>[Head(id) - 47])
         \o id_text(Tail(id))

\* Path::display of an absolute path
RECURSIVE display(_)
display(p) ==
    IF Len(p) = 0 THEN "/"
    ELSE IF Len(p) = 1 THEN "/" \o p[1]
    ELSE "/" \o Head(p) \o display(Tail(p))

\* the reason of handle_remote_on (the Chinese text rendered in English)
remote_on_reason(config) ==
    "[ok] remote mode enabled\n\nconfiguration:\n- target wxid: " \o config.wxid
    \o "\n- listen address: " \o config.listen
    \o "\n- marker file: ~/.gewe-cc/remote.lock\n\n"
    \o "after a task completes, wechat instructions are awaited."

\* the reason of handle_remote_off; `extra` is pushed for a blank session id
remote_off_reason(session_id) ==
    "[ok] remote mode is off for the current session\n\nsession id: "
    \o id_text(session_id)
    \o "\n\nglobal remote mode is still enabled, new tasks stay under remote control."
    \o (IF TrimIsEmpty(session_id)
        THEN "\n\n[warn] no session id, the session cannot be recorded as disabled."
        ELSE "")

\* the reason of handle_remote_status
remote_status_reason(enabled, config) ==
    IF enabled
    THEN "[status] remote mode\n\nstate: [ok] enabled\nconfiguration:\n- target wxid: "
         \o config.wxid \o "\n- listen address: " \o config.listen
         \o "\n- marker file: ~/.gewe-cc/remote.lock"
    ELSE "[status] remote mode\n\nstate: [x] not enabled\n\n"
         \o "use >remote-on to enable remote mode."

\* the reason of handle_stop
stop_reason(input) ==
    (IF input.user_prompt.some
     THEN "[loop] remote mode enabled\n\n" \o input.user_prompt.val
     ELSE "[loop] remote mode enabled - activate the remote-control skill now "
          \o "if it is not active\n\nrun: /gewe-cc:remote-control")
    \o "\n\ncontext:\n- project: " \o project(input.cwd)
    \o "\n- directory: "
    \o (IF input.cwd.some THEN display(input.cwd.val) ELSE "unknown")
    \o "\n- session: " \o id_text(input.session_id)

\* handle_remote_on
handle_remote_on(S, fault) ==
    LET enabled == enable_remote(S, fault)
        loaded == load(enabled.store)
    IN  IF ~enabled.ok THEN Fatal(enabled.store, "io")
        ELSE IF ~loaded.ok THEN Fatal(enabled.store, "config")
        ELSE Block(enabled.store,
                   [NoReason EXCEPT !.class = "remote_on",
                                    !.wxid = loaded.config.wxid,
                                    !.listen = loaded.config.listen,
                                    !.text = remote_on_reason(loaded.config)])

handle_remote_off_global(S, session_id, fault) ==
    LET disabled == disable_session(disable_remote(S, fault).store, session_id, fault)
    IN  IF TrimIsEmpty(session_id)
        THEN Block(S, [NoReason EXCEPT !.class = "remote_off", !.warn = TRUE,
                                !.text = remote_off_reason(session_id)])
        ELSE IF ~disabled.ok THEN Fatal(disabled.store, "io")
        ELSE Block(disabled.store,
                   [NoReason EXCEPT !.class = "remote_off",
                                    !.text = remote_off_reason(session_id)])

handle_remote_off_silent(S, session_id, fault) ==
    LET disabled == disable_session(S, session_id, fault)
    IN  IF ~disabled.ok THEN Fatal(disabled.store, "io")
        ELSE Block(disabled.store,
                   [NoReason EXCEPT !.class = "remote_off",
                                    !.text = remote_off_reason(session_id)])

\* handle_remote_off
handle_remote_off(S, session_id, fault) ==
    IF TrimIsEmpty(session_id)
    THEN Block(S, [NoReason EXCEPT !.class = "remote_off", !.warn = TRUE,
                                !.text = remote_off_reason(session_id)])
    ELSE LET disabled == disable_session(S, session_id, fault)
         IN  IF ~disabled.ok THEN Fatal(disabled.store, "io")
             ELSE Block(disabled.store,
                   [NoReason EXCEPT !.class = "remote_off",
                                    !.text = remote_off_reason(session_id)])

handle_remote_status_quiet(S) ==
    LET loaded == load(S)
    IN  IF ~loaded.ok THEN Fatal(S, "config")
        ELSE IF is_remote_enabled(S)
        THEN [Block(S, [NoReason EXCEPT !.class = "status_enabled",
                                        !.wxid = loaded.config.wxid,
                                        !.listen = loaded.config.listen,
                                        !.text = remote_status_reason(TRUE, loaded.config)])
              EXCEPT !.read = "enabled"]
        ELSE Approve(S)

\* the status taken from the config flag alone
handle_remote_status_flag_only(S) ==
    LET loaded == load(S)
    IN  IF ~loaded.ok THEN Fatal(S, "config")
        ELSE IF loaded.config.enabled
        THEN [Block(S, [NoReason EXCEPT !.class = "status_enabled",
                                        !.wxid = loaded.config.wxid,
                                        !.listen = loaded.config.listen,
                                        !.text = remote_status_reason(TRUE, loaded.config)])
              EXCEPT !.read = "enabled"]
        ELSE [Block(S, [NoReason EXCEPT !.class = "status_disabled",
                                        !.text = remote_status_reason(FALSE, loaded.config)])
              EXCEPT !.read = "disabled"]

\* handle_remote_status
handle_remote_status(S) ==
    LET loaded == load(S)
        enabled == is_remote_enabled(S)
    IN  IF ~loaded.ok THEN Fatal(S, "config")
        ELSE IF enabled
        THEN [Block(S, [NoReason EXCEPT !.class = "status_enabled",
                                        !.wxid = loaded.config.wxid,
                                        !.listen = loaded.config.listen,
                                        !.text = remote_status_reason(TRUE, loaded.config)])
              EXCEPT !.read = "enabled"]
        ELSE [Block(S, [NoReason EXCEPT !.class = "status_disabled",
                                        !.text = remote_status_reason(FALSE, loaded.config)])
              EXCEPT !.read = "disabled"]

handle_user_prompt_submit_gated(S, input, fault) ==
    IF is_session_disabled(S, input.session_id) THEN Approve(S)
    ELSE IF input.prompt = SomeStr(">remote-on") THEN handle_remote_on(S, fault)
    ELSE IF input.prompt = SomeStr(">remote-off")
    THEN handle_remote_off(S, input.session_id, fault)
    ELSE IF input.prompt = SomeStr(">remote-status") THEN handle_remote_status(S)
    ELSE Approve(S)

\* prompts compared after trimming: ">remote-on " taken for ">remote-on"
handle_user_prompt_submit_trimmed(S, input, fault) ==
    IF input.prompt \in {SomeStr(">remote-on"), SomeStr(">remote-on ")}
    THEN handle_remote_on(S, fault)
    ELSE IF input.prompt = SomeStr(">remote-off")
    THEN handle_remote_off(S, input.session_id, fault)
    ELSE IF input.prompt = SomeStr(">remote-status") THEN handle_remote_status(S)
    ELSE Approve(S)

\* handle_user_prompt_submit
handle_user_prompt_submit(S, input, fault) ==
    IF input.prompt = SomeStr(">remote-on") THEN handle_remote_on(S, fault)
    ELSE IF input.prompt = SomeStr(">remote-off")
    THEN handle_remote_off(S, input.session_id, fault)
    ELSE IF input.prompt = SomeStr(">remote-status") THEN handle_remote_status(S)
    ELSE Approve(S)

\* step 3 of handle_stop: register the session, every failure ignored
stop_register(S, input, fault) ==
    IF input.transcript_path.some /\ SessionRegistry_new(S).ok
    THEN register(S, SessionRegistry_new(S).sessions, input.session_id,
                  input.transcript_path.val, fault).store
    ELSE S

\* a registry that cannot be opened or written ends the event in an error
stop_block_propagating(S, input, fault) ==
    IF input.transcript_path.some
       /\ (~SessionRegistry_new(S).ok \/ fault = "reg_write")
    THEN Fatal(S, "io")
    ELSE Block(stop_register(S, input, fault),
               [NoReason EXCEPT
                   !.class = IF input.user_prompt.some THEN "stop_custom"
                             ELSE "stop_default",
                   !.project = project(input.cwd),
                   !.text = stop_reason(input)])

\* step 4 of handle_stop
stop_block(S, input, fault) ==
    Block(stop_register(S, input, fault),
          [NoReason EXCEPT
              !.class = IF input.user_prompt.some THEN "stop_custom" ELSE "stop_default",
              !.project = project(input.cwd),
              !.text = stop_reason(input)])

handle_stop_no_loop_guard(S, input, fault) ==
    IF ~is_remote_enabled(S) THEN Approve(S)
    ELSE IF is_session_disabled(S, input.session_id) THEN Approve(S)
    ELSE stop_block(S, input, fault)

handle_stop_no_enabled_check(S, input, fault) ==
    IF input.stop_hook_active THEN Approve(S)
    ELSE IF is_session_disabled(S, input.session_id) THEN Approve(S)
    ELSE stop_block(S, input, fault)

\* a session-disable consumed by the Stop it lets through
handle_stop_one_shot(S, input, fault) ==
    IF input.stop_hook_active THEN Approve(S)
    ELSE IF ~is_remote_enabled(S) THEN Approve(S)
    ELSE IF is_session_disabled(S, input.session_id)
    THEN Approve([S EXCEPT !.sess = SessOk(S.sess.ids \ {input.session_id})])
    ELSE stop_block(S, input, fault)

\* handle_stop
handle_stop(S, input, fault) ==
    IF input.stop_hook_active THEN Approve(S)
    ELSE IF ~is_remote_enabled(S) THEN Approve(S)
    ELSE IF is_session_disabled(S, input.session_id) THEN Approve(S)
    ELSE stop_block(S, input, fault)

handle_notification_no_gate(S, input, messenger) ==
    IF ~load(S).ok THEN Fatal(S, "config")
    ELSE [Approve(S) EXCEPT !.calls = 1, !.logged = (messenger = "spawn_fail")]

\* handle_notification
handle_notification(S, input, messenger) ==
    IF ~is_remote_enabled(S) THEN Approve(S)
    ELSE IF ~load(S).ok THEN Fatal(S, "config")
    ELSE [Approve(S) EXCEPT !.calls = 1, !.logged = (messenger = "spawn_fail")]

HookTypes == {"user-prompt-submit", "stop", "notification", "pre-tool-use"}

\* HookHandler::handle
handle(S, hook_type, input, fault, messenger) ==
    IF hook_type = "user-prompt-submit" THEN handle_user_prompt_submit(S, input, fault)
    ELSE IF hook_type = "stop" THEN handle_stop(S, input, fault)
    ELSE IF hook_type = "notification" THEN handle_notification(S, input, messenger)
    ELSE Fatal(S, "unknown_hook")

\* HookDecision as serde derives it without rename_all: the variant names as written
to_json_no_rename(decision, reason) ==
    IF decision = "approve" THEN <<<<"decision", "Approve">>>>
    ELSE <<<<"decision", "Block">>, <<"reason", reason>>>>

\* HookDecision::to_json: the object as its sequence of key/value pairs.
\* serde(tag = "decision", rename_all = "lowercase") writes the tag first,
\* with the variant name in lower case, then the variant's fields.
to_json(decision, reason) ==
    IF decision = "approve" THEN <<<<"decision", "approve">>>>
    ELSE <<<<"decision", "block">>, <<"reason", reason>>>>

\* HookDecision::output after handle_from_stdin returned Ok: the lines on stdout
output(out) ==
    IF out.decision = "err" THEN <<>>
    ELSE <<to_json(out.decision, out.reason.text)>>

\* undecodable stdin taken for an event with every field at its default
handle_from_stdin_default_on_error(S, hook_type, parses, input, fault, messenger) ==
    IF ~parses
    THEN handle(S, hook_type,
                [session_id |-> EmptyId, prompt |-> NoneStr, cwd |-> NonePath,
                 transcript_path |-> NonePath, stop_hook_active |-> FALSE,
                 user_prompt |-> NoneStr], "none", "success")
    ELSE handle(S, hook_type, input, fault, messenger)

\* HookHandler::handle_from_stdin; `parses` is whether stdin decodes to a HookInput
handle_from_stdin(S, hook_type, parses, input, fault, messenger) ==
    IF ~parses THEN Fatal(S, "parse")
    ELSE handle(S, hook_type, input, fault, messenger)

----------------------------------------------------------------------------
(* remote.rs: the command-line entry points on the same store *)

\* remote::handle_on
handle_on(S, fault) ==
    LET enabled == enable_remote(S, fault)
    IN  IF ~enabled.ok THEN Fatal(enabled.store, "io")
        ELSE IF ~load(enabled.store).ok THEN Fatal(enabled.store, "config")
        ELSE Outcome(enabled.store, "ok", NoReason, "", 0, "")

\* remote::handle_off; session_id is the optional --session-id argument
handle_off(S, session_id, fault) ==
    LET done == IF session_id.some THEN disable_session(S, session_id.val, fault)
                ELSE disable_remote(S, fault)
    IN  IF ~done.ok THEN Fatal(done.store, "io")
        ELSE Outcome(done.store, "ok", NoReason, "", 0, "")

\* remote::handle_status
handle_status(S) ==
    IF is_remote_enabled(S)
    THEN IF ~load(S).ok THEN [Fatal(S, "config") EXCEPT !.read = "enabled"]
         ELSE Outcome(S, "ok", NoReason, "", 0, "enabled")
    ELSE Outcome(S, "ok", NoReason, "", 0, "disabled")

----------------------------------------------------------------------------
(* The state machine: one step is one process invocation, run to its end *)

NoInvocation ==
    [op |-> "none", kind |-> "", parses |-> FALSE, sid |-> EmptyId,
     prompt |-> NoneStr, active |-> FALSE, messenger |-> "",
     decision |-> "", reason |-> NoReason, error |-> "", calls |-> 0,
     logged |-> FALSE, read |-> "", afterOn |-> FALSE, stdout |-> <<>>,
     transcript_path |-> NonePath]

\* the invocation was a >remote-on prompt that was answered with Block
RemoteOnSucceeded(l) ==
    /\ l.op = "hook" /\ l.parses /\ l.kind = "user-prompt-submit"
    /\ l.prompt = SomeStr(">remote-on") /\ l.decision = "block"

\* no process is part-way through an operation
NoProcs == <<>>

Commit(out) ==
    /\ cfg' = out.store.cfg
    /\ lock' = out.store.lock
    /\ sess' = out.store.sess
    /\ reg' = out.store.reg
    /\ procs' = procs

Record(op, out, session_id) ==
    [NoInvocation EXCEPT !.op = op, !.sid = session_id,
                         !.decision = out.decision, !.reason = out.reason,
                         !.error = out.error, !.calls = out.calls,
                         !.logged = out.logged, !.read = out.read,
                         !.afterOn = RemoteOnSucceeded(last)]

\* a HookInput with every field at its serde default
DefaultInput ==
    [session_id |-> EmptyId, prompt |-> NoneStr, cwd |-> NonePath,
     transcript_path |-> NonePath, stop_hook_active |-> FALSE,
     user_prompt |-> NoneStr]

\* the inputs the host sends with each hook type: the fields that handler reads
InputsOf(hook_type) ==
    IF hook_type = "user-prompt-submit"
    THEN {[DefaultInput EXCEPT !.session_id = i, !.prompt = p] :
             i \in SessionIds, p \in Prompts}
    ELSE IF hook_type = "stop"
    THEN {in \in {[DefaultInput EXCEPT !.session_id = i, !.cwd = c,
                                       !.transcript_path = t,
                                       !.stop_hook_active = a, !.user_prompt = u] :
                     i \in SessionIds, c \in Cwds, t \in TranscriptPaths,
                     a \in BOOLEAN, u \in UserPrompts} :
             \* one registered session shows every write to sessions.json
             in.transcript_path.some => in.session_id = RegisteredId}
    ELSE IF hook_type = "notification"
    THEN {[DefaultInput EXCEPT !.session_id = i, !.cwd = c] :
             i \in SessionIds, c \in Cwds}
    ELSE {DefaultInput}

\* the file writes an invocation may attempt, any one of which may fail
HookFaults(hook_type, input) ==
    IF hook_type = "user-prompt-submit" /\ input.prompt = SomeStr(">remote-on")
    THEN {"none", "cfg_write", "lock_write"}
    ELSE IF hook_type = "user-prompt-submit" /\ input.prompt = SomeStr(">remote-off")
    THEN {"none", "sess_write"}
    ELSE IF hook_type = "stop" /\ input.transcript_path.some
    THEN {"none", "reg_write"}
    ELSE {"none"}

Init ==
    /\ cfg \in {CfgAbsent, CfgBad} \cup
               {CfgOk([c EXCEPT !.enabled = e]) :
                   c \in {DefaultConfig, InitConfig}, e \in BOOLEAN}
    /\ lock \in BOOLEAN
    /\ sess \in {SessAbsent, SessGarbage, SessUnreadable}
    /\ reg \in {RegAbsent, RegGarbage, RegUnreadable}
    /\ last = NoInvocation
    /\ procs = NoProcs

\* main, Commands::Hook: `gewe-cc hook <hook_type>` with one JSON object on stdin
Hook(hook_type, parses, input, fault, messenger) ==
    \E out \in {handle_from_stdin(Store, hook_type, parses, input, fault, messenger)} :
        /\ Commit(out)
        /\ last' = [Record("hook", out, IF parses /\ hook_type # "notification"
                                        THEN input.session_id ELSE EmptyId)
                       EXCEPT !.kind = hook_type,
                              !.stdout = output(out),
                              !.transcript_path = IF parses THEN input.transcript_path
                                                  ELSE NonePath,
                              !.parses = parses,
                              !.prompt = IF parses THEN input.prompt ELSE NoneStr,
                              !.active = parses /\ input.stop_hook_active,
                              !.messenger = IF out.calls > 0 THEN messenger ELSE ""]

\* main, Commands::On
CliOn(fault) ==
    \E out \in {handle_on(Store, fault)} :
        Commit(out) /\ last' = Record("cli_on", out, EmptyId)

\* main, Commands::Off
CliOff(session_id, fault) ==
    \E out \in {handle_off(Store, session_id, fault)} :
        /\ Commit(out)
        /\ last' = IF session_id.some
                   THEN Record("cli_off_session", out, session_id.val)
                   ELSE Record("cli_off", out, EmptyId)

\* main, Commands::Status
CliStatus ==
    \E out \in {handle_status(Store)} :
        Commit(out) /\ last' = Record("cli_status", out, EmptyId)

Next ==
    \/ \E hook_type \in HookTypes, parses \in BOOLEAN :
          \E input \in (IF parses THEN InputsOf(hook_type) ELSE {DefaultInput}) :
            \E fault \in HookFaults(hook_type, input),
               messenger \in (IF parses /\ hook_type = "notification"
                              THEN MessengerOutcomes ELSE {"success"}) :
                Hook(hook_type, parses, input, fault, messenger)
    \/ \E fault \in {"none", "cfg_write", "lock_write"} : CliOn(fault)
    \/ \E fault \in {"none", "cfg_write", "lock_remove"} :
          CliOff([some |-> FALSE, val |-> EmptyId], fault)
    \/ \E i \in SessionIds, fault \in {"none", "sess_write"} :
          CliOff([some |-> TRUE, val |-> i], fault)
    \/ CliStatus

Spec == Init /\ [][Next]_vars

----------------------------------------------------------------------------
(* Two processes inside disable_session at once.  The hook is a new process *)
(* per event and nothing locks session_disabled.json, so the file reads and *)
(* writes of two invocations interleave freely.                             *)

RaceProcs == {"A", "B"}

\* a process about to run disable_session(id)
RaceStart(id) == [id |-> id, pc |-> "load", sessions |-> {}, result |-> ""]

InitSessionRace ==
    /\ cfg \in {CfgAbsent, CfgOk([InitConfig EXCEPT !.enabled = TRUE])}
    /\ lock = (cfg.st = "ok")
    /\ sess \in {SessAbsent, SessGarbage, SessUnreadable} \cup
                {SessOk(ids) : ids \in SUBSET NamedIds}
    /\ reg = RegAbsent
    /\ last = NoInvocation
    /\ \E a \in NamedIds : \E b \in NamedIds \ {a} :
          procs = [p \in RaceProcs |-> RaceStart(IF p = "A" THEN a ELSE b)]

\* disable_session: load_disabled_sessions, then sessions.insert
RaceLoad(p) ==
    /\ procs[p].pc = "load"
    /\ \E loaded \in {load_disabled_sessions(Store)} :
          procs' = [procs EXCEPT ![p] =
                      IF loaded.ok
                      THEN [@ EXCEPT !.pc = "create",
                                     !.sessions = loaded.sessions \cup {procs[p].id}]
                      ELSE [@ EXCEPT !.pc = "done", !.result = "err"]]
    /\ UNCHANGED <<cfg, lock, sess, reg, last>>

\* save_disabled_sessions: fs::write opens the file, which truncates it
RaceCreate(p) ==
    /\ procs[p].pc = "create"
    /\ sess' = SessGarbage
    /\ procs' = [procs EXCEPT ![p].pc = "write"]
    /\ UNCHANGED <<cfg, lock, reg, last>>

\* save_disabled_sessions: fs::write writes the serialized set
RaceWrite(p) ==
    /\ procs[p].pc = "write"
    /\ sess' = save_disabled_sessions(Store, procs[p].sessions, "none").store.sess
    /\ procs' = [procs EXCEPT ![p].pc = "done", ![p].result = "ok"]
    /\ UNCHANGED <<cfg, lock, reg, last>>

NextSessionRace ==
    \E p \in RaceProcs : RaceLoad(p) \/ RaceCreate(p) \/ RaceWrite(p)

SpecSessionRace == InitSessionRace /\ [][NextSessionRace]_vars

----------------------------------------------------------------------------
(* One session of the host around the Stop hook.  The host runs the hook    *)
(* whenever the agent finishes; after a Block it lets the agent continue on *)
(* the reason and, when the agent finishes again, runs the hook with        *)
(* stop_hook_active = true.  Meanwhile the user may switch remote mode.     *)

\* the host's session: working, replay (continuing after one Block), stuck
\* (blocked again while replaying) or stopped
HostStart(id) == [sid |-> id, phase |-> "working"]

InitHost ==
    /\ cfg \in {CfgAbsent, CfgBad} \cup
               {CfgOk([InitConfig EXCEPT !.enabled = e]) : e \in BOOLEAN}
    /\ lock \in BOOLEAN
    /\ sess \in {SessAbsent, SessUnreadable} \cup {SessOk(ids) : ids \in SUBSET NamedIds}
    /\ reg \in {RegAbsent, RegUnreadable}
    /\ last = NoInvocation
    /\ \E id \in {EmptyId, RegisteredId} : procs = HostStart(id)

\* main, Commands::Hook with hook_type "stop", run by the host for its session
HostRunStop(input, fault, blocked, approved) ==
    \E out \in {handle_from_stdin(Store, "stop", TRUE, input, fault, "success")} :
        /\ cfg' = out.store.cfg
        /\ lock' = out.store.lock
        /\ sess' = out.store.sess
        /\ reg' = out.store.reg
        /\ last' = [Record("hook", out, input.session_id)
                       EXCEPT !.kind = "stop", !.parses = TRUE,
                              !.transcript_path = input.transcript_path,
                              !.active = input.stop_hook_active,
                              !.stdout = output(out)]
        /\ procs' = [procs EXCEPT !.phase = IF out.decision = "block"
                                            THEN blocked ELSE approved]

\* the Stop events the host can send for its session
HostInputs(active) ==
    {in \in InputsOf("stop") :
        in.session_id = procs.sid /\ in.stop_hook_active = active}

\* the agent finished: Stop with stop_hook_active = false
HostStop ==
    /\ procs.phase = "working"
    /\ \E input \in HostInputs(FALSE) : \E fault \in HookFaults("stop", input) :
          HostRunStop(input, fault, "replay", "stopped")

\* the agent finished again after a Block: Stop with stop_hook_active = true
HostReplay ==
    /\ procs.phase \in {"replay", "stuck"}
    /\ \E input \in HostInputs(TRUE) : \E fault \in HookFaults("stop", input) :
          HostRunStop(input, fault, "stuck", "stopped")

\* the user sends the next prompt to a stopped session
HostPrompt ==
    /\ procs.phase = "stopped"
    /\ procs' = [procs EXCEPT !.phase = "working"]
    /\ UNCHANGED <<cfg, lock, sess, reg, last>>

NextHost ==
    \/ HostStop
    \/ HostReplay
    \/ HostPrompt
    \/ CliOn("none")
    \/ CliOff([some |-> FALSE, val |-> EmptyId], "none")
    \/ \E i \in NamedIds : CliOff([some |-> TRUE, val |-> i], "none")

\* the host runs the Stop hook every time the agent finishes
SpecHost == InitHost /\ [][NextHost]_vars /\ WF_vars(HostStop) /\ WF_vars(HostReplay)

----------------------------------------------------------------------------
(* `gewe-cc config`: update_notification on the whole Config.  Here the     *)
(* content of config.toml is kept key by key, a key with a serde default    *)
(* being optional in the file, and the Config struct is what toml::from_str *)
(* makes of it.                                                             *)

NoneInt == [some |-> FALSE, val |-> 0]
SomeInt(v) == [some |-> TRUE, val |-> v]

\* toml::from_str::<Config>: the serde defaults fill the keys the file lacks
from_str(content) ==
    [enabled |-> content.enabled,
     channel |-> content.channel,
     wxid |-> content.wxid,
     listen |-> content.listen,
     transcript_domain |-> IF content.transcript_domain.some
                           THEN content.transcript_domain.val ELSE "",
     command |-> IF content.command.some THEN content.command.val ELSE "gewe-cli",
     timeout |-> IF content.timeout.some THEN content.timeout.val ELSE 0]

\* toml::to_string_pretty(&Config): every key is written
to_string_pretty(config) ==
    [enabled |-> config.enabled,
     channel |-> config.channel,
     wxid |-> config.wxid,
     listen |-> config.listen,
     transcript_domain |-> SomeStr(config.transcript_domain),
     command |-> SomeStr(config.command),
     timeout |-> SomeInt(config.timeout)]

\* a field given as Some("") taken for a field not given
update_notification_skip_empty(S, wxid, listen, transcript_domain, fault) ==
    LET loaded == load(S)
        config == from_str(loaded.config)
    IN  IF ~loaded.ok THEN Err(S)
        ELSE save(S, to_string_pretty(
                 [config EXCEPT
                     !.wxid = IF wxid.some /\ wxid.val # "" THEN wxid.val ELSE @,
                     !.listen = IF listen.some /\ listen.val # "" THEN listen.val ELSE @,
                     !.transcript_domain =
                         IF transcript_domain.some /\ transcript_domain.val # ""
                         THEN transcript_domain.val ELSE @]), fault)

\* ConfigManager::update_notification
update_notification(S, wxid, listen, transcript_domain, fault) ==
    LET loaded == load(S)
        config == from_str(loaded.config)
    IN  IF ~loaded.ok THEN Err(S)
        ELSE save(S, to_string_pretty(
                 [config EXCEPT
                     !.wxid = IF wxid.some THEN wxid.val ELSE @,
                     !.listen = IF listen.some THEN listen.val ELSE @,
                     !.transcript_domain =
                         IF transcript_domain.some THEN transcript_domain.val ELSE @]),
                 fault)

\* the arguments of `gewe-cc config`
ConfigArgs ==
    [wxid : {NoneStr, SomeStr(""), SomeStr("wxid_b")},
     listen : {NoneStr, SomeStr("127.0.0.1:8080")},
     timeout : {NoneInt, SomeInt(30)},
     transcript_domain : {NoneStr, SomeStr(""), SomeStr("t.example.com")}]

NoArgs ==
    [wxid |-> NoneStr, listen |-> NoneStr, timeout |-> NoneInt,
     transcript_domain |-> NoneStr]

\* the contents config.toml starts with: as `gewe-cc init` wrote it, or edited
\* by hand
ConfigContents ==
    [enabled : BOOLEAN, channel : {"wechat"}, wxid : {"wxid_a"},
     listen : {"0.0.0.0:4399"},
     transcript_domain : {NoneStr, SomeStr("old.example.com")},
     command : {NoneStr, SomeStr("/opt/gewe-cli")},
     timeout : {NoneInt, SomeInt(60)}]

\* the handle_config process: idle, about to call update_notification, or
\* about to write the timeout
ConfigIdle == [pc |-> "idle", args |-> NoArgs]

\* the last update_notification call: its arguments and what it returned
NoCall ==
    [op |-> "none", args |-> NoArgs, result |-> "",
     before |-> from_str([enabled |-> FALSE, channel |-> "", wxid |-> "",
                          listen |-> "", transcript_domain |-> NoneStr,
                          command |-> NoneStr, timeout |-> NoneInt])]

InitConfigCmd ==
    /\ cfg \in {CfgAbsent, CfgBad} \cup {CfgOk(c) : c \in ConfigContents}
    /\ lock \in BOOLEAN
    /\ sess = SessAbsent
    /\ reg = RegAbsent
    /\ last = NoCall
    /\ procs = ConfigIdle

\* remote::handle_config up to its first file operation: without arguments it
\* shows the config (load()?), with any it goes on to update_notification
ConfigStart(args) ==
    /\ procs.pc = "idle"
    /\ procs' = IF args = NoArgs THEN ConfigIdle ELSE [pc |-> "update", args |-> args]
    /\ last' = NoCall
    /\ UNCHANGED <<cfg, lock, sess, reg>>

\* remote::handle_config: config_mgr.update_notification(wxid, listen, transcript_domain)?
ConfigUpdate(fault) ==
    /\ procs.pc = "update"
    /\ \E done \in {update_notification(Store, procs.args.wxid, procs.args.listen,
                                         procs.args.transcript_domain, fault)} :
          /\ cfg' = done.store.cfg
          /\ last' = [op |-> "update_notification", args |-> procs.args,
                      result |-> IF done.ok THEN "ok" ELSE "err",
                      before |-> IF cfg.st = "ok" THEN from_str(cfg.config)
                                 ELSE NoCall.before]
          /\ procs' = IF done.ok /\ procs.args.timeout.some
                      THEN [procs EXCEPT !.pc = "timeout"] ELSE ConfigIdle
    /\ UNCHANGED <<lock, sess, reg>>

\* remote::handle_config: the timeout, loaded, set and saved on its own
ConfigTimeout(fault) ==
    /\ procs.pc = "timeout"
    /\ \E loaded \in {load(Store)} :
          cfg' = IF ~loaded.ok THEN cfg
                 ELSE save(Store, to_string_pretty(
                          [from_str(loaded.config) EXCEPT
                              !.timeout = procs.args.timeout.val]), fault).store.cfg
    /\ procs' = ConfigIdle
    /\ last' = [last EXCEPT !.op = "set_timeout"]
    /\ UNCHANGED <<lock, sess, reg>>

NextConfigCmd ==
    \/ \E args \in ConfigArgs : ConfigStart(args)
    \/ \E fault \in {"none", "cfg_write"} : ConfigUpdate(fault)
    \/ \E fault \in {"none", "cfg_write"} : ConfigTimeout(fault)

SpecConfigCmd == InitConfigCmd /\ [][NextConfigCmd]_vars

----------------------------------------------------------------------------
(* enable_remote in one process and disable_remote in another.  Nothing     *)
(* locks config.toml or remote.lock, so the file operations of the two      *)
(* calls interleave freely; fs::write opens (and truncates) and then writes. *)

\* a process about to run enable_remote ("E") or disable_remote ("D")
RemoteStart == [pc |-> "load", config |-> DefaultConfig]

\* the store the two calls started from
RaceFrom(S) == [op |-> "race", start |-> S]

InitRemoteRace ==
    /\ cfg \in {CfgAbsent, CfgBad} \cup
               {CfgOk([InitConfig EXCEPT !.enabled = e]) : e \in BOOLEAN}
    /\ lock \in BOOLEAN
    /\ sess = SessAbsent
    /\ reg = RegAbsent
    /\ last = RaceFrom(Store)
    /\ procs = [p \in {"E", "D"} |-> RemoteStart]

\* enable_remote: load().unwrap_or_default(), config.remote.enabled = true
EnableLoad ==
    /\ procs["E"].pc = "load"
    /\ procs' = [procs EXCEPT !["E"] =
                   [pc |-> "create",
                    config |-> [load(Store).config EXCEPT !.enabled = TRUE]]]
    /\ UNCHANGED <<cfg, lock, sess, reg, last>>

\* disable_remote: if let Ok(mut config) = self.load()
DisableLoad ==
    /\ procs["D"].pc = "load"
    /\ procs' = [procs EXCEPT !["D"] =
                   IF load(Store).ok
                   THEN [pc |-> "create",
                         config |-> [load(Store).config EXCEPT !.enabled = FALSE]]
                   ELSE [@ EXCEPT !.pc = "check"]]
    /\ UNCHANGED <<cfg, lock, sess, reg, last>>

\* save: fs::write opens config.toml, which truncates it
SaveCreate(p) ==
    /\ procs[p].pc = "create"
    /\ cfg' = CfgBad
    /\ procs' = [procs EXCEPT ![p].pc = "write"]
    /\ UNCHANGED <<lock, sess, reg, last>>

\* save: fs::write writes the serialized config
SaveWrite(p) ==
    /\ procs[p].pc = "write"
    /\ cfg' = save(Store, procs[p].config, "none").store.cfg
    /\ procs' = [procs EXCEPT ![p].pc = IF p = "E" THEN "lock" ELSE "check"]
    /\ UNCHANGED <<lock, sess, reg, last>>

\* enable_remote: fs::write(&self.lock_file, "")
EnableLock ==
    /\ procs["E"].pc = "lock"
    /\ lock' = TRUE
    /\ procs' = [procs EXCEPT !["E"].pc = "done"]
    /\ UNCHANGED <<cfg, sess, reg, last>>

\* disable_remote: if self.lock_file.exists()
DisableCheck ==
    /\ procs["D"].pc = "check"
    /\ procs' = [procs EXCEPT !["D"].pc = IF lock THEN "remove" ELSE "done"]
    /\ UNCHANGED <<cfg, lock, sess, reg, last>>

\* disable_remote: fs::remove_file(&self.lock_file)
DisableRemove ==
    /\ procs["D"].pc = "remove"
    /\ lock' = FALSE
    /\ procs' = [procs EXCEPT !["D"].pc = "done"]
    /\ UNCHANGED <<cfg, sess, reg, last>>

NextRemoteRace ==
    \/ EnableLoad
    \/ DisableLoad
    \/ \E p \in {"E", "D"} : SaveCreate(p)
    \/ \E p \in {"E", "D"} : SaveWrite(p)
    \/ EnableLock
    \/ DisableCheck
    \/ DisableRemove

SpecRemoteRace == InitRemoteRace /\ [][NextRemoteRace]_vars

----------------------------------------------------------------------------
(* The transcript server: one SessionRegistry that lives on, its map read   *)
(* from sessions.json when it starts, while hook processes register         *)
(* sessions through registries of their own.                                *)

\* the transcript paths a session is registered with
RegistryPaths == {<<"t", "a.jsonl">>, <<"t", "b.jsonl">>}

\* the maps sessions.json can hold
RegistryMaps == UNION {[ids -> RegistryPaths] : ids \in SUBSET NamedIds}

\* SessionRegistry::get on the server's map `sessions`: the map it is left
\* with and the path returned
get(S, sessions, session_id) ==
    IF session_id \in DOMAIN sessions
    THEN [sessions |-> sessions, result |-> SomePath(sessions[session_id])]
    ELSE LET updated == IF S.reg.st = "ok" THEN S.reg.map ELSE sessions
         IN  [sessions |-> updated,
              result |-> IF session_id \in DOMAIN updated
                         THEN SomePath(updated[session_id]) ELSE NonePath]

\* the last operation, and the path each session was last registered with by
\* a hook process that completed
NoLookup ==
    [op |-> "none", id |-> EmptyId, result |-> NonePath, registered |-> EmptyMap]

InitServer ==
    /\ cfg = CfgOk([InitConfig EXCEPT !.enabled = TRUE])
    /\ lock = TRUE
    /\ sess = SessAbsent
    /\ reg \in {RegAbsent, RegGarbage} \cup {RegOk(m) : m \in RegistryMaps}
    /\ last = NoLookup
    /\ procs = [sessions |-> SessionRegistry_new(Store).sessions]

\* step 3 of handle_stop in a hook process: SessionRegistry::new, register
HookRegister(session_id, transcript_path, fault) ==
    /\ SessionRegistry_new(Store).ok
    /\ \E done \in {register(Store, SessionRegistry_new(Store).sessions,
                              session_id, transcript_path, fault)} :
          /\ reg' = done.store.reg
          /\ last' = [op |-> "register", id |-> session_id, result |-> NonePath,
                      registered |-> IF done.ok
                                     THEN MapInsert(last.registered, session_id,
                                                    transcript_path)
                                     ELSE last.registered]
    /\ UNCHANGED <<cfg, lock, sess, procs>>

\* the server answers a request for a session: registry.get(session_id)
ServerGet(session_id) ==
    \E got \in {get(Store, procs.sessions, session_id)} :
        /\ procs' = [procs EXCEPT !.sessions = got.sessions]
        /\ last' = [last EXCEPT !.op = "get", !.id = session_id,
                                !.result = got.result]
        /\ UNCHANGED <<cfg, lock, sess, reg>>

NextServer ==
    \/ \E i \in NamedIds, t \in RegistryPaths, fault \in {"none", "reg_write"} :
          HookRegister(i, t, fault)
    \/ \E i \in NamedIds : ServerGet(i)

SpecServer == InitServer /\ [][NextServer]_vars

----------------------------------------------------------------------------
(* Properties *)

\* the last invocation was a hook of this type whose stdin decoded
IsHook(hook_type) == last.op = "hook" /\ last.parses /\ last.kind = hook_type

\* the last invocation was this reserved prompt
IsCommand(p) == IsHook("user-prompt-submit") /\ last.prompt = SomeStr(p)

Commands == {SomeStr(">remote-on"), SomeStr(">remote-off"), SomeStr(">remote-status")}

\* what the files say, read off the store directly
LockPresent == lock
ConfigLoads == cfg.st = "ok"
ConfigFlag == cfg.st = "ok" /\ cfg.config.enabled
GlobalEnabled == LockPresent \/ ConfigFlag
disabledSessions == sess.ids

\* C1: a Stop event with stop_hook_active = true is approved, whatever the lock,
\* the config flag, the disabled-session set and the other event fields are.
C1_StopActiveApproves ==
    (IsHook("stop") /\ last.active) => last.decision = "approve"

\* C1 witness: an active Stop from a session that is not disabled was approved
\* while the lock was present (a Stop that would otherwise be blocked).
C1_Witness ==
    /\ IsHook("stop") /\ last.active /\ last.decision = "approve"
    /\ LockPresent /\ last.sid \notin disabledSessions

\* C2: a Stop event is blocked exactly when stop_hook_active is false, remote
\* mode reads as enabled and the session is not (non-empty and in
\* disabledSessions); every other Stop is approved.
C2_StopBlocksExactlyWhen ==
    IsHook("stop") =>
        /\ last.decision \in {"approve", "block"}
        /\ (last.decision = "block") <=>
               /\ ~last.active
               /\ GlobalEnabled
               /\ ~(last.sid # EmptyId /\ last.sid \in disabledSessions)

\* C2 witness: a Stop with an empty session id was blocked while remote mode was
\* enabled and some other session was disabled.
C2_Witness ==
    /\ IsHook("stop") /\ last.sid = EmptyId /\ ~last.active
    /\ GlobalEnabled /\ disabledSessions # {}
    /\ last.decision = "block" /\ last.reason.project = "unknown"

\* C3: while remote mode reads as disabled, a PromptSubmit that is not one of the
\* three commands, a Stop and a Notification are all approved.
C3_DisabledApprovesAll ==
    (/\ ~GlobalEnabled
     /\ \/ IsHook("user-prompt-submit") /\ last.prompt \notin Commands
        \/ IsHook("stop")
        \/ IsHook("notification"))
    => last.decision = "approve"

\* C3 witness: an inactive Stop of a session that is not disabled was approved
\* because the lock is absent and the config flag is off.
C3_Witness ==
    /\ IsHook("stop") /\ ~last.active /\ last.sid \notin disabledSessions
    /\ ~LockPresent /\ ConfigLoads /\ ~ConfigFlag
    /\ last.decision = "approve"

\* the step just taken was a hook of this type whose stdin decoded
StepIsHook(hook_type) == last'.op = "hook" /\ last'.parses /\ last'.kind = hook_type

\* the step just taken was this reserved prompt
StepIsCommand(p) == StepIsHook("user-prompt-submit") /\ last'.prompt = SomeStr(p)

\* C4 as stated: from a session that is in disabledSessions while remote mode is
\* enabled, Stop is approved and each of the three commands returns Block
\* (a fatal error of a failed file write apart).
C4_Original_Step ==
    (GlobalEnabled /\ last'.sid \in disabledSessions) =>
        /\ StepIsHook("stop") => last'.decision = "approve"
        /\ (StepIsHook("user-prompt-submit") /\ last'.prompt \in Commands
               /\ last'.error # "io")
           => last'.decision = "block"

C4_Original == [][C4_Original_Step]_vars

\* C4 (amended): from a session that is in disabledSessions while remote mode is
\* enabled, Stop is approved, and the three commands are never approved or
\* skipped: >remote-on and >remote-off return Block unless a file write fails,
\* >remote-status returns Block exactly when the config record loads and is a
\* fatal config error otherwise.
C4_Step ==
    (GlobalEnabled /\ last'.sid \in disabledSessions) =>
        /\ StepIsHook("stop") => last'.decision = "approve"
        /\ StepIsCommand(">remote-on") =>
              \/ last'.decision = "block" /\ last'.reason.class = "remote_on"
              \/ last'.decision = "err" /\ last'.error = "io"
        /\ StepIsCommand(">remote-off") =>
              \/ /\ last'.decision = "block" /\ last'.reason.class = "remote_off"
                 /\ last'.sid \in disabledSessions'
              \/ last'.decision = "err" /\ last'.error = "io"
        /\ StepIsCommand(">remote-status") =>
              IF ConfigLoads
              THEN last'.decision = "block" /\ last'.reason.class = "status_enabled"
              ELSE last'.decision = "err" /\ last'.error = "config"

C4_DisabledSessionCommandsRun == [][C4_Step]_vars

\* C4 witness: >remote-status from a disabled session was answered with Block
\* while remote mode was enabled.
C4_Witness ==
    /\ IsCommand(">remote-status") /\ last.sid \in disabledSessions
    /\ GlobalEnabled /\ last.decision = "block"

\* the last invocation displayed the enabled bit it read
ShowsEnabledBit == last.op = "cli_status" \/ (IsCommand(">remote-status") /\ last.read # "")

\* C5: is_remote_enabled is true whenever the lock exists, whatever the config
\* is; with the lock absent it is the config flag when the record loads and
\* false when it does not.
C5_EnabledReadRule ==
    last.op = "cli_status" =>
        /\ last.read \in {"enabled", "disabled"}
        /\ LockPresent => last.read = "enabled"
        /\ (~LockPresent /\ ConfigLoads) =>
              (last.read = "enabled") = cfg.config.enabled
        /\ (~LockPresent /\ ~ConfigLoads) => last.read = "disabled"

\* C5 witness: `status` read enabled from the lock alone, the config record
\* being unloadable.
C5_Witness ==
    /\ last.op = "cli_status" /\ LockPresent /\ ~ConfigLoads
    /\ last.read = "enabled"

\* C6 as stated: when lock and config flag disagree the lock wins, so with the
\* lock absent and the config flag on the read is "disabled", and with the lock
\* present and the flag off it is "enabled".
C6_Original ==
    (ShowsEnabledBit /\ ConfigLoads /\ LockPresent # cfg.config.enabled) =>
        (last.read = "enabled") = LockPresent

\* C6 (amended): when lock and config flag disagree, only the presence of the
\* lock overrides the flag: lock present and flag off reads enabled, and lock
\* absent with the flag on reads enabled too (the flag is the fallback).
C6_DisagreementReadsEnabled ==
    (ShowsEnabledBit /\ ConfigLoads /\ LockPresent # cfg.config.enabled) =>
        last.read = "enabled"

\* C6 witness: the enabled bit was shown as enabled with the lock absent and the
\* config flag on.
C6_Witness ==
    /\ ShowsEnabledBit /\ ~LockPresent /\ ConfigLoads /\ cfg.config.enabled
    /\ last.read = "enabled"

\* C7 as stated: a Notification event ends in Approve in every store state and
\* for every Messenger outcome.
C7_NotificationAlwaysApproves ==
    IsHook("notification") => last.decision = "approve"

\* C8: with remote mode disabled a Notification is approved and the Messenger is
\* not invoked; the Messenger is invoked only when remote mode is enabled, and
\* then once.
C8_MessengerOnlyWhenEnabled ==
    IsHook("notification") =>
        /\ ~GlobalEnabled => (last.decision = "approve" /\ last.calls = 0)
        /\ last.calls # 0 => (GlobalEnabled /\ last.calls = 1)
        /\ (GlobalEnabled /\ ConfigLoads) => last.calls = 1

\* C8 witness: a Notification was approved without a Messenger call while remote
\* mode was disabled and the config record (with its wxid) was loadable.
C8_Witness ==
    /\ IsHook("notification") /\ ~GlobalEnabled /\ ConfigLoads
    /\ cfg.config.wxid # "" /\ last.decision = "approve" /\ last.calls = 0

\* C9: a >remote-on that succeeds returns Block and leaves the config flag set
\* and the lock present; a second successful >remote-on right after it leaves
\* config and lock unchanged and returns the same Block reason.
C9_Step ==
    (StepIsCommand(">remote-on") /\ last'.decision # "err") =>
        /\ last'.decision = "block" /\ last'.reason.class = "remote_on"
        /\ lock' /\ cfg'.st = "ok" /\ cfg'.config.enabled
        /\ is_remote_enabled(Store')
        /\ RemoteOnSucceeded(last) =>
              /\ cfg' = cfg /\ lock' = lock /\ sess' = sess /\ reg' = reg
              /\ last'.reason = last.reason

C9_RemoteOnIdempotent == [][C9_Step]_vars

\* C9 witness: a second >remote-on, from another session, succeeded right after a
\* successful one that had created the config record from its defaults.
C9_Witness ==
    /\ RemoteOnSucceeded(last) /\ last.afterOn
    /\ lock /\ cfg = CfgOk([DefaultConfig EXCEPT !.enabled = TRUE])

\* the last invocation called disable_session(last.sid) and it returned Ok
DisableSessionReturnedOk ==
    \/ last.op = "cli_off_session" /\ last.decision = "ok"
    \/ IsCommand(">remote-off") /\ last.decision = "block" /\ ~last.reason.warn

\* C10 as stated: after disable_session(id) with a non-empty id,
\* is_session_disabled(id) is true.
C10_Original ==
    (DisableSessionReturnedOk /\ last.sid # EmptyId) =>
        is_session_disabled(Store, last.sid)

\* C10 (amended): after a disable_session(id) that returns Ok, for an id that is
\* not blank (not empty once trimmed), is_session_disabled(id) is true;
\* disable_session of a blank id (empty or only whitespace) leaves
\* disabledSessions unchanged, and is_session_disabled of a blank id is false in
\* every state.
C10_Step ==
    /\ DisableSessionReturnedOk' =>
          IF TrimIsEmpty(last'.sid)
          THEN sess' = sess
          ELSE is_session_disabled(Store', last'.sid) /\ last'.sid \in disabledSessions'
    /\ \A id \in SessionIds : TrimIsEmpty(id) => ~is_session_disabled(Store', id)

C10_DisableSessionRoundTrip == [][C10_Step]_vars

\* C10 witness: `off --session-id s2` returned Ok on top of an already disabled
\* s1, and s2 reads as disabled.
C10_Witness ==
    /\ last.op = "cli_off_session" /\ last.decision = "ok"
    /\ last.sid = <<115, 50>> /\ is_session_disabled(Store, last.sid)
    /\ <<115, 49>> \in disabledSessions

\* C11: once a session id reads as disabled it reads as disabled after every
\* later invocation (enable, disable, disable_session of other ids, any hook
\* event), the invocations running one after another.
C11_Step ==
    \A id \in SessionIds :
        is_session_disabled(Store, id) =>
            (is_session_disabled(Store', id) /\ id \in disabledSessions')

C11_DisabledStaysDisabled == [][C11_Step]_vars

\* C11 witness: s1 still reads as disabled after a later `off --session-id s2`
\* and a global `off` that succeeded.
C11_Witness ==
    /\ last.op = "cli_off" /\ last.decision = "ok"
    /\ is_session_disabled(Store, <<115, 49>>)
    /\ is_session_disabled(Store, <<115, 50>>)

\* C12 as stated: when two processes run disable_session for distinct ids with
\* their file reads and writes interleaved, after both have returned Ok both
\* ids read as disabled.
C12_NoLostUpdate ==
    (\A p \in DOMAIN procs : procs[p].pc = "done" /\ procs[p].result = "ok") =>
        \A p \in DOMAIN procs : is_session_disabled(Store, procs[p].id)

\* C13: >remote-off is session-scoped: it leaves the config record and the lock
\* as they were, so is_remote_enabled is the same before and after, and when it
\* returns Block for a session id that is not blank that id is in
\* disabledSessions.
C13_Step ==
    StepIsCommand(">remote-off") =>
        /\ cfg' = cfg /\ lock' = lock
        /\ is_remote_enabled(Store') = is_remote_enabled(Store)
        /\ (last'.decision = "block" /\ ~TrimIsEmpty(last'.sid)) =>
              (last'.sid \in disabledSessions' /\ is_session_disabled(Store', last'.sid))

C14_Original ==
    (IsCommand(">remote-off") /\ last.decision = "block") =>
        IF last.sid = EmptyId
        THEN last.reason.warn
        ELSE ~last.reason.warn /\ last.sid \in disabledSessions

\* C14 (amended): >remote-off with a blank session id (empty or only
\* whitespace) leaves disabledSessions unchanged, returns Block and carries the
\* "no session id" warning; with a session id that is not blank it either
\* returns Block without the warning and with the id recorded, or fails with a
\* fatal error when the disabled-session file cannot be read or written.
C14_Step ==
    StepIsCommand(">remote-off") =>
        IF TrimIsEmpty(last'.sid)
        THEN /\ sess' = sess
             /\ last'.decision = "block" /\ last'.reason.class = "remote_off"
             /\ last'.reason.warn
        ELSE \/ /\ last'.decision = "block" /\ last'.reason.class = "remote_off"
                /\ ~last'.reason.warn
                /\ last'.sid \in disabledSessions'
             \/ /\ last'.decision = "err" /\ last'.error = "io"
                /\ sess' = sess

C14_RemoteOffBlankIdWarns == [][C14_Step]_vars

\* C14 witness: >remote-off with a whitespace-only session id returned Block
\* with the warning while another session was already recorded.
C14_Witness ==
    /\ IsCommand(">remote-off") /\ last.sid = BlankId
    /\ last.decision = "block" /\ last.reason.warn
    /\ disabledSessions # {} /\ BlankId \notin disabledSessions

\* C15 as stated: each of >remote-on, >remote-off and >remote-status ends in
\* Block with a non-empty reason in every store state.
C15_Original ==
    (IsHook("user-prompt-submit") /\ last.prompt \in Commands)
    => (last.decision = "block" /\ last.reason.class # "")

\* C15 (amended): a reserved prompt is never approved; it ends in Block with a
\* non-empty reason or in a fatal error.  >remote-on and >remote-off are fatal
\* only when one of their file operations fails; >remote-status is Block
\* exactly when the config record loads and a fatal config error otherwise.
C15_CommandsBlockOrFail ==
    (IsHook("user-prompt-submit") /\ last.prompt \in Commands) =>
        /\ \/ last.decision = "block" /\ last.reason.class # ""
           \/ last.decision = "err" /\ last.error \in {"io", "config"}
        /\ last.prompt # SomeStr(">remote-status") => last.error # "config"
        /\ last.prompt = SomeStr(">remote-status") =>
              /\ (last.decision = "block") = ConfigLoads
              /\ last.error # "io"

\* C15 witness: >remote-status returned Block with the disabled reason while
\* remote mode was disabled and the config record was loadable.
C15_Witness ==
    /\ IsCommand(">remote-status") /\ ~GlobalEnabled /\ ConfigLoads
    /\ last.decision = "block" /\ last.reason.class = "status_disabled"

\* C16: a PromptSubmit whose prompt is absent or is anything but exactly one of
\* the three commands is approved, whatever the enabled state and
\* disabledSessions are, and changes no file.
C16_Step ==
    (StepIsHook("user-prompt-submit") /\ last'.prompt \notin Commands) =>
        /\ last'.decision = "approve"
        /\ cfg' = cfg /\ lock' = lock /\ sess' = sess /\ reg' = reg

C16_OrdinaryPromptApproved == [][C16_Step]_vars

\* C16 witness: the prompt ">remote-on " (trailing space) was approved while
\* remote mode was disabled, and nothing was enabled by it.
C16_Witness ==
    /\ IsHook("user-prompt-submit") /\ last.prompt = SomeStr(">remote-on ")
    /\ last.decision = "approve" /\ ~GlobalEnabled

\* C17: an invocation whose event kind is none of user-prompt-submit, stop and
\* notification ends in the unknown-kind fatal error, whether or not stdin
\* holds a decodable event.
C17_UnknownKindBeforeInput ==
    (last.op = "hook" /\ last.kind \notin {"user-prompt-submit", "stop", "notification"})
    => (last.decision = "err" /\ last.error = "unknown_hook")

\* C18: when stdin does not decode into a hook event the invocation ends in a
\* fatal error, prints no decision, calls nothing, and leaves config.toml,
\* remote.lock, session_disabled.json and sessions.json as they were, for
\* every event kind.
C18_Step ==
    (last'.op = "hook" /\ ~last'.parses) =>
        /\ last'.decision = "err" /\ last'.error = "parse"
        /\ last'.calls = 0 /\ last'.stdout = <<>>
        /\ cfg' = cfg /\ lock' = lock /\ sess' = sess /\ reg' = reg

C18_MalformedInputIsFatal == [][C18_Step]_vars

\* C18 witness: a stop event with undecodable stdin ended in the parse error
\* while remote mode was enabled (a decodable one would have been blocked).
C18_Witness ==
    /\ last.op = "hook" /\ last.kind = "stop" /\ ~last.parses
    /\ GlobalEnabled /\ ConfigLoads
    /\ last.decision = "err" /\ last.error = "parse"

\* C19: an Approve is printed as exactly the object {"decision":"approve"};
\* every Block is printed as one object whose first key is decision = "block"
\* and whose second and last key is reason, and the reason of every Block a
\* handler produces is non-empty.
C19_DecisionEncoding ==
    last.op = "hook" =>
        /\ last.decision = "approve" => last.stdout = <<<<<<"decision", "approve">>>>>>
        /\ last.decision = "block" =>
              /\ Len(last.stdout) = 1 /\ Len(last.stdout[1]) = 2
              /\ last.stdout[1][1] = <<"decision", "block">>
              /\ last.stdout[1][2] = <<"reason", last.reason.text>>
              /\ Len(last.reason.text) > 0

\* C19 witness: a stop event was blocked with the caller's own prompt and the
\* decision was printed.
C19_Witness ==
    /\ IsHook("stop") /\ last.decision = "block"
    /\ last.reason.class = "stop_custom" /\ Len(last.stdout) = 1

\* C20: a Stop or Notification event met with a config.toml that is missing,
\* unreadable or unparsable is approved (never blocked, never a fatal error),
\* whether remote.lock exists or not.
C20_FailOpen ==
    ((IsHook("stop") \/ IsHook("notification")) /\ ~ConfigLoads)
    => last.decision = "approve"

\* C21: with a host that runs the Stop hook with stop_hook_active = true after
\* every Block, a stop attempt is never blocked twice in a row: the Stop that
\* follows a Block is approved, and a session that tries to stop does stop.
C21_Step ==
    (procs.phase = "replay" /\ last' # last /\ last'.op = "hook")
    => (last'.decision = "approve" /\ procs'.phase = "stopped")

C21_StopLoopBounded ==
    /\ [](procs.phase # "stuck")
    /\ [][C21_Step]_vars
    /\ (procs.phase = "working" ~> procs.phase = "stopped")
    /\ (procs.phase = "replay" ~> procs.phase = "stopped")

\* C21 witness: the Stop replayed after a Block was approved while remote mode
\* was enabled and the session was not disabled (the state in which a Stop
\* with stop_hook_active = false is blocked).
C21_Witness ==
    /\ procs.phase = "stopped" /\ IsHook("stop") /\ last.active
    /\ last.decision = "approve"
    /\ GlobalEnabled /\ last.sid \notin disabledSessions

\* the last invocation called enable_remote, or disable_remote, and it returned Ok
EnableRemoteReturnedOk ==
    \/ last.op = "cli_on" /\ last.decision = "ok"
    \/ IsCommand(">remote-on") /\ last.decision = "block"

DisableRemoteReturnedOk == last.op = "cli_off" /\ last.decision = "ok"

\* C22 as stated: after a successful enable_remote the config record has
\* enabled = true and the lock exists; after a successful disable_remote the
\* config record has enabled = false and the lock is absent.
C22_Original ==
    /\ EnableRemoteReturnedOk => (ConfigLoads /\ cfg.config.enabled /\ LockPresent)
    /\ DisableRemoteReturnedOk => (ConfigLoads /\ ~cfg.config.enabled /\ ~LockPresent)

\* C22 (amended): after a successful enable_remote the config record has
\* enabled = true and the lock exists; after a successful disable_remote the
\* lock is absent and the config record, when there is one that loads, has
\* enabled = false (a missing or unparsable config.toml is left as it is).
\* After either, lock existence equals the config flag as it is read.
C22_EnableDisableResync ==
    /\ EnableRemoteReturnedOk => (ConfigLoads /\ cfg.config.enabled /\ LockPresent)
    /\ DisableRemoteReturnedOk =>
          (~LockPresent /\ (ConfigLoads => ~cfg.config.enabled))
    /\ (EnableRemoteReturnedOk \/ DisableRemoteReturnedOk) =>
          (LockPresent = ConfigFlag)

\* C22 witness: `off` succeeded right after a successful >remote-on and left
\* the lock absent and the config record with enabled = false.
C22_Witness ==
    /\ DisableRemoteReturnedOk /\ last.afterOn
    /\ ~LockPresent /\ ConfigLoads /\ ~cfg.config.enabled

\* C23: a Stop event never ends in a fatal error, so a registry that cannot be
\* opened or written leaves an intercepted Stop a Block; and sessions.json is
\* changed by a Stop only when the Stop is blocked and carried a transcript
\* path, and then to the old map with sessionId -> transcriptPath added.
C23_Step ==
    StepIsHook("stop") =>
        /\ last'.decision \in {"approve", "block"}
        /\ (~last'.active /\ is_remote_enabled(Store)
              /\ ~is_session_disabled(Store, last'.sid)) => last'.decision = "block"
        /\ reg' # reg =>
              /\ last'.decision = "block" /\ last'.transcript_path.some
              /\ reg' = RegOk(MapInsert(SessionRegistry_new(Store).sessions,
                                        last'.sid, last'.transcript_path.val))
        /\ (last'.decision = "approve" \/ ~last'.transcript_path.some) => reg' = reg

C23_RegistryFailureSwallowed == [][C23_Step]_vars

\* C23 witness: a Stop that carried a transcript path was blocked although
\* sessions.json could not be read.
C23_Witness ==
    /\ IsHook("stop") /\ last.decision = "block" /\ last.transcript_path.some
    /\ reg.st = "unreadable"

\* C24: a Stop event or a Notification event, whatever its outcome, leaves
\* config.toml, remote.lock and session_disabled.json as they were.
C24_Step ==
    (last'.op = "hook" /\ last'.kind \in {"stop", "notification"})
    => (cfg' = cfg /\ lock' = lock /\ sess' = sess)

C24_GateHasNoSideEffects == [][C24_Step]_vars

\* C24 witness: a Stop was approved for a disabled session while remote mode
\* was enabled, and the session is still recorded as disabled.
C24_Witness ==
    /\ IsHook("stop") /\ ~last.active /\ last.decision = "approve"
    /\ GlobalEnabled /\ last.sid \in disabledSessions

\* C25: >remote-status changes none of config.toml, remote.lock and
\* session_disabled.json (nor sessions.json), whatever its outcome; the reason
\* it returns is the enabled variant, with the wxid and listen address of the
\* config record, exactly when is_remote_enabled is true, and the disabled
\* variant, without them, otherwise.
C25_Step ==
    StepIsCommand(">remote-status") =>
        /\ cfg' = cfg /\ lock' = lock /\ sess' = sess /\ reg' = reg
        /\ last'.decision = "block" =>
              /\ (last'.reason.class = "status_enabled") = is_remote_enabled(Store)
              /\ (last'.reason.class = "status_disabled") = ~is_remote_enabled(Store)
              /\ last'.reason.text =
                    remote_status_reason(is_remote_enabled(Store), cfg.config)
              /\ is_remote_enabled(Store) =>
                    /\ last'.reason.wxid = cfg.config.wxid
                    /\ last'.reason.listen = cfg.config.listen
              /\ ~is_remote_enabled(Store) =>
                    (last'.reason.wxid = "" /\ last'.reason.listen = "")
        /\ last'.decision # "block" => ~load(Store).ok

C26_Step ==
    (procs.pc = "update" /\ procs'.pc # "update") =>
        /\ lock' = lock /\ sess' = sess /\ reg' = reg
        /\ last'.result = "err" => cfg' = cfg
        /\ last'.result = "ok" =>
              /\ cfg.st = "ok" /\ cfg'.st = "ok"
              /\ from_str(cfg'.config) =
                    [from_str(cfg.config) EXCEPT
                        !.wxid = IF procs.args.wxid.some
                                 THEN procs.args.wxid.val ELSE @,
                        !.listen = IF procs.args.listen.some
                                   THEN procs.args.listen.val ELSE @,
                        !.transcript_domain =
                            IF procs.args.transcript_domain.some
                            THEN procs.args.transcript_domain.val ELSE @]

C26_UpdateNotificationFrame == [][C26_Step]_vars

\* C26 witness: update_notification(Some(wxid), None, None) returned Ok on a
\* hand-edited config: the wxid is the new one, and the listen address, the
\* transcript domain, the enabled flag and the gewe_cli settings are the old.
C26_Witness ==
    /\ last.op = "update_notification" /\ last.result = "ok"
    /\ last.args.wxid = SomeStr("wxid_b")
    /\ last.args.listen = NoneStr /\ last.args.transcript_domain = NoneStr
    /\ last.before.wxid = "wxid_a" /\ last.before.enabled
    /\ from_str(cfg.config) =
          [enabled |-> TRUE, channel |-> "wechat", wxid |-> "wxid_b",
           listen |-> "0.0.0.0:4399", transcript_domain |-> "old.example.com",
           command |-> "/opt/gewe-cli", timeout |-> 60]

\* C27: after disable_remote returned Ok, is_remote_enabled is false, whatever
\* the lock and the config record were before (lock present or absent, flag on
\* or off, config.toml missing or unparsable).
C27_DisableRemoteDisables ==
    DisableRemoteReturnedOk => ~is_remote_enabled(Store)

\* C27 witness: `off` succeeded right after a successful >remote-on that had
\* created the config record from its defaults, and remote mode reads as
\* disabled.
C27_Witness ==
    /\ DisableRemoteReturnedOk /\ last.afterOn
    /\ cfg = CfgOk(DefaultConfig) /\ ~is_remote_enabled(Store)

\* the two serial orders of enable_remote and disable_remote from store S
EnableThenDisable(S) == disable_remote(enable_remote(S, "none").store, "none").store
DisableThenEnable(S) == enable_remote(disable_remote(S, "none").store, "none").store

\* C28: when enable_remote and disable_remote have both completed, whatever the
\* order of their file operations was, config.toml and remote.lock are as one
\* of the two serial orders leaves them, so lock existence equals the config
\* flag.
C28_EnableDisableSerializable ==
    (procs["E"].pc = "done" /\ procs["D"].pc = "done") =>
        /\ \E S \in {EnableThenDisable(last.start), DisableThenEnable(last.start)} :
              cfg = S.cfg /\ lock = S.lock
        /\ LockPresent = ConfigFlag

\* C29: when enable_remote or disable_remote returns an error (the config save,
\* the lock write or the lock removal failed), is_remote_enabled reads what it
\* read before the call.
C29_Step ==
    (/\ last'.op \in {"cli_on", "cli_off"} \/ StepIsCommand(">remote-on")
     /\ last'.decision = "err" /\ last'.error = "io")
    => (is_remote_enabled(Store') = is_remote_enabled(Store))

C29_AllOrNothingOnError == [][C29_Step]_vars

\* C30: after a hook process completed register(id, path), get(id) on the
\* server's registry returns that path, both when the server did not know the
\* id and when it holds the id with an older path.
C30_ServerSeesRegistrations ==
    (last.op = "get" /\ last.id \in DOMAIN last.registered)
    => last.result = SomePath(last.registered[last.id])

====
